---- MODULE Spec2Model ----
(***************************************************************************)
(* PIO SPI-like TX/RX with DMA for RP2350 (pio_spi_dma.c / pio_spi_dma.h)  *)
(* and its two applications, the ping master and the echo slave.           *)
(*                                                                         *)
(* The state of one board is a record (the driver's globals, the           *)
(* application's instance structs, the DMA channels, the PIO state         *)
(* machines and their FIFOs, the application buffers, the position of the  *)
(* main control flow).  Every driver function is an operator from a board  *)
(* state to a board state, named as in the source; the actions apply them. *)
(***************************************************************************)
EXTENDS Integers, Sequences, FiniteSets, TLC

VARIABLES board

vars == <<board>>

(***************************************************************************)
(* Bounds of the model                                                     *)
(***************************************************************************)
NumTx == 5              \* application TX instance variables per board
NumRx == 5              \* application RX instance variables per board
NumDmaChannels == 5     \* DMA channels of the board that are free at start
FifoDepth == 2          \* entries of a PIO FIFO
MaxLen == 2             \* longest transfer
MaxPings == 2           \* pings the master sends

(***************************************************************************)
(* Program constants                                                       *)
(***************************************************************************)
NumSlots == 4           \* tx_instances[4], rx_instances[4]

\* `uint dma_chan`: the value -1 stored in the unsigned field.  `uint` is
\* modelled 16 bits wide (the integers of TLC are 32-bit signed); what the
\* code depends on is that the stored value is never negative.
UintMod == 2 ^ 16
ToUint(v) == v % UintMod
InvalidChan == ToUint(-1)

Boards == {"A", "B"}
TxIds == 1 .. NumTx
RxIds == {100 + k : k \in 1 .. NumRx}
Ids == TxIds \cup RxIds
Chans == 0 .. (NumDmaChannels - 1)
Slots == 0 .. (NumSlots - 1)
Bytes == {0, 1}
DirOf(i) == IF i \in TxIds THEN "tx" ELSE "rx"

NoFn == "NULL"

(***************************************************************************)
(* Pointers.  init() builds the instance in a local variable `inst`,       *)
(* registers &inst and returns the struct by value.  Once init() has       *)
(* returned the registered pointer refers to a dead local: what it refers  *)
(* to is not defined by the language.  The outcomes modelled: the build    *)
(* constructs the local in the caller's object (the pointer is the         *)
(* owner's), or the local is separate storage that keeps the struct as it  *)
(* was when init() returned.  aliased[dir] is the outcome of the build.    *)
(***************************************************************************)
NULL == [obj |-> "null", id |-> 0]
OwnerPtr(i) == [obj |-> "owner", id |-> i]
LocalPtr(i) == [obj |-> "local", id |-> i]

\* pio_spi_dma_tx_inst_t / pio_spi_dma_rx_inst_t (pio, sm are the index i)
ZeroInst == [dma_chan |-> 0, busy |-> FALSE, callback |-> NoFn, callback_data |-> NoFn]

ZeroChan ==
    [claimed |-> FALSE, inte0 |-> FALSE, intr |-> FALSE, busy |-> FALSE,
     trans_count |-> 0, mem |-> 0, idx |-> 0]

ZeroSm == [loaded |-> FALSE, enabled |-> FALSE, fifo |-> <<>>]

IdlePc == [at |-> "idle", id |-> 0]

\* the locals of main() of the ping master and of the echo slave: where the
\* loop stands, `sequence`, `timeouts`, and the bytes sent and received so far
NoApp == [at |-> "none", sequence |-> 0, timeouts |-> 0, sent |-> <<>>, rcvd |-> <<>>]

\* al: the outcome of the build; drv: the instance variables the application
\* of the board uses; alphabet: the byte values it sends and receives;
\* probe: whether the bytes on the wire are recorded; trace: whether the
\* steps of init, deinit and the interrupt handler are recorded.
\* retrigger: what the DMA controller does with a trigger written to a
\* channel that is busy, see dma_channel_set_trans_count
InitBoard(al, drv, alphabet, probe, trace) ==
    [drv |-> drv,
     alphabet |-> alphabet,
     inst |-> [i \in Ids |-> ZeroInst],
     local |-> [i \in Ids |-> ZeroInst],
     aliased |-> al,
     tx_instances |-> [k \in Slots |-> NULL],
     rx_instances |-> [k \in Slots |-> NULL],
     irq_installed |-> FALSE,
     irq_line_enabled |-> FALSE,
     dma |-> [c \in Chans |-> ZeroChan],
     sm |-> [i \in Ids |-> ZeroSm],
     mem |-> [i \in Ids |-> <<>>],
     pc |-> IdlePc,
     panicked |-> FALSE,
     app |-> NoApp,
     retrigger |-> FALSE,
     \* history, not program state
     life |-> [i \in Ids |-> "none"],
     phase |-> [i \in Ids |-> "idle"],
     wire |-> [i \in Ids |-> <<>>],
     pre |-> [i \in Ids |-> <<>>],
     probe |-> probe,
     trace |-> trace,
     log |-> <<>>]

Builds == [tx : BOOLEAN, rx : BOOLEAN]

(***************************************************************************)
(* Access through a pointer                                                *)
(***************************************************************************)
Deref(s, p) == IF p.obj = "owner" THEN s.inst[p.id] ELSE s.local[p.id]

StoreBusy(s, p, v) ==
    IF p.obj = "owner"
    THEN [s EXCEPT !.inst[p.id].busy = v]
    ELSE [s EXCEPT !.local[p.id].busy = v]

\* log: what the last init, deinit, start or pass of the interrupt handler has
\* done, in order; Begin opens it, Quiet closes it
Logged(s, e) == IF s.log = <<>> THEN s ELSE [s EXCEPT !.log = Append(@, e)]

Begin(s, op, i) == [s EXCEPT !.log = IF s.trace THEN << <<op, i>> >> ELSE <<>>]

Quiet(s) == [s EXCEPT !.log = <<>>]

(***************************************************************************)
(* hardware/dma.h                                                          *)
(***************************************************************************)
FreeChans(s) == {c \in Chans : ~s.dma[c].claimed}

Min(S) == CHOOSE x \in S : \A y \in S : x <= y

\* dma_claim_unused_channel(true): the lowest unclaimed channel; with
\* required = true and none left the SDK panics and does not return.
dma_claim_unused_channel(s, required) ==
    IF FreeChans(s) # {}
    THEN [chan |-> Min(FreeChans(s)), panic |-> FALSE,
          st |-> Logged([s EXCEPT !.dma[Min(FreeChans(s))].claimed = TRUE],
                        <<"claim", Min(FreeChans(s))>>)]
    ELSE [chan |-> -1, panic |-> required, st |-> s]

\* dma_channel_configure(chan, &c, fifo / NULL, NULL / fifo, 0, false): the
\* fixed address is the FIFO of the caller's state machine, see Holder
dma_channel_configure(s, c) ==
    [s EXCEPT !.dma[c] = [@ EXCEPT !.trans_count = 0, !.mem = 0, !.idx = 0]]

dma_channel_set_irq0_enabled(s, c, en) ==
    Logged([s EXCEPT !.dma[c].inte0 = en],
           <<IF en THEN "irq_enable" ELSE "irq_disable", c>>)

\* INTS0: the raw completion flag masked by the channel's enable bit
dma_channel_get_irq0_status(s, c) ==
    c \in Chans /\ s.dma[c].intr /\ s.dma[c].inte0

dma_channel_acknowledge_irq0(s, c) ==
    Logged([s EXCEPT !.dma[c].intr = FALSE], <<"ack", c>>)

dma_channel_is_busy(s, c) == c \in Chans /\ s.dma[c].busy

\* dma_channel_set_read_addr / dma_channel_set_write_addr (no trigger)
dma_channel_set_addr(s, c, buf) ==
    [s EXCEPT !.dma[c].mem = buf, !.dma[c].idx = 1]

\* dma_channel_set_trans_count(chan, len, true): write the count and start.
\* The count written is the reload value, copied into the live counter when
\* the trigger starts the channel.  On a channel that is busy the trigger
\* either starts the new sequence (retrigger) or is ignored: the channel then
\* goes on with the count it had left.
dma_channel_set_trans_count(s, c, len) ==
    Logged(IF s.dma[c].busy /\ ~s.retrigger
           THEN s
           ELSE [s EXCEPT !.dma[c].trans_count = len, !.dma[c].busy = (len > 0)],
           <<"dma_start", c, len>>)

\* dma_channel_abort: the channel stops; a completion flag already raised stays
dma_channel_abort(s, c) ==
    Logged([s EXCEPT !.dma[c].busy = FALSE], <<"dma_abort", c>>)

dma_channel_unclaim(s, c) ==
    Logged([s EXCEPT !.dma[c].claimed = FALSE], <<"unclaim", c>>)

(***************************************************************************)
(* hardware/pio.h and the generated program headers                        *)
(***************************************************************************)
\* pio_add_program + spi_tx_cs_program_init / spi_rx_cs_program_init
pio_program_init(s, i) ==
    Logged([s EXCEPT !.sm[i] = [loaded |-> TRUE, enabled |-> TRUE, fifo |-> <<>>]],
           <<"program_load", i>>)

pio_sm_set_enabled(s, i, en) ==
    Logged([s EXCEPT !.sm[i].enabled = en], <<"sm_enable", i, en>>)

pio_remove_program(s, i) ==
    Logged([s EXCEPT !.sm[i].loaded = FALSE], <<"program_unload", i>>)

pio_sm_is_tx_fifo_empty(s, i) == s.sm[i].fifo = <<>>

pio_sm_is_rx_fifo_empty(s, i) == s.sm[i].fifo = <<>>

(***************************************************************************)
(* IRQ handling (internal)                                                 *)
(***************************************************************************)
FreeSlots(tbl) == {k \in Slots : tbl[k] = NULL}

SlotsOf(tbl, p) == {k \in Slots : tbl[k] = p}

\* a register that takes slot 0 when the table is full
register_tx_instance_overwrite(s, p) ==
    IF FreeSlots(s.tx_instances) = {}
    THEN [s EXCEPT !.tx_instances[0] = p]
    ELSE [s EXCEPT !.tx_instances[Min(FreeSlots(s.tx_instances))] = p]

register_tx_instance(s, p) ==
    IF FreeSlots(s.tx_instances) = {}
    THEN s
    ELSE [s EXCEPT !.tx_instances[Min(FreeSlots(s.tx_instances))] = p]

\* variant: clears the lowest occupied slot, whatever it refers to
unregister_tx_instance_lowest(s, p) ==
    IF FreeSlots(s.tx_instances) = Slots
    THEN s
    ELSE [s EXCEPT !.tx_instances[Min(Slots \ FreeSlots(s.tx_instances))] = NULL]

unregister_tx_instance(s, p) ==
    IF SlotsOf(s.tx_instances, p) = {}
    THEN s
    ELSE [s EXCEPT !.tx_instances[Min(SlotsOf(s.tx_instances, p))] = NULL]

register_rx_instance(s, p) ==
    IF FreeSlots(s.rx_instances) = {}
    THEN s
    ELSE [s EXCEPT !.rx_instances[Min(FreeSlots(s.rx_instances))] = p]

unregister_rx_instance(s, p) ==
    IF SlotsOf(s.rx_instances, p) = {}
    THEN s
    ELSE [s EXCEPT !.rx_instances[Min(SlotsOf(s.rx_instances, p))] = NULL]

\* variant: the handler is installed by every init
ensure_irq_handler_every_init(s) ==
    Logged([s EXCEPT !.irq_installed = TRUE, !.irq_line_enabled = TRUE],
           <<"irq_install">>)

ensure_irq_handler(s) ==
    IF ~s.irq_installed
    THEN Logged([s EXCEPT !.irq_installed = TRUE, !.irq_line_enabled = TRUE],
                <<"irq_install">>)
    ELSE s

\* the body of one loop iteration of dma_irq_handler for the slot content p
dispatch_slot(s, p) ==
    IF p # NULL /\ dma_channel_get_irq0_status(s, Deref(s, p).dma_chan)
    THEN LET s1 == dma_channel_acknowledge_irq0(s, Deref(s, p).dma_chan)
             s2 == Logged(StoreBusy(s1, p, FALSE), <<"busy_clear", p>>)
         IN IF Deref(s2, p).callback # NoFn
            THEN Logged(s2, <<"call", Deref(s2, p).callback,
                              Deref(s2, p).callback_data>>)
            ELSE s2
    ELSE s

RECURSIVE tx_scan(_, _)
tx_scan(s, k) ==
    IF k >= NumSlots THEN s
    ELSE tx_scan(dispatch_slot(s, s.tx_instances[k]), k + 1)

RECURSIVE rx_scan(_, _)
rx_scan(s, k) ==
    IF k >= NumSlots THEN s
    ELSE rx_scan(dispatch_slot(s, s.rx_instances[k]), k + 1)

dma_irq_handler(s) == rx_scan(tx_scan(s, 0), 0)

\* the shared line DMA_IRQ_0 is asserted
IrqPending(s) ==
    s.irq_line_enabled /\ \E c \in Chans : dma_channel_get_irq0_status(s, c)

(***************************************************************************)
(* TX implementation                                                       *)
(***************************************************************************)
\* `return inst;` : the struct is copied into the caller's object
ReturnInst(s, i, L) == [s EXCEPT !.inst[i] = L]

\* a write to the local `inst` of init(), which is the caller's object when
\* the build constructs it in place
StoreLocal(s, p, L) ==
    IF p.obj = "owner"
    THEN [s EXCEPT !.inst[p.id] = L]
    ELSE [s EXCEPT !.local[p.id] = L]

\* `inst.dma_chan < 0` on the unsigned field
ChanIsNegative(chan) == ToUint(chan) < 0

\* an init that returns the instance with its busy flag set
pio_spi_dma_tx_init_busy(s, i) ==
    LET s1 == pio_program_init(s, i)
        r == dma_claim_unused_channel(s1, TRUE)
        p == IF s.aliased.tx THEN OwnerPtr(i) ELSE LocalPtr(i)
        L == [ZeroInst EXCEPT !.dma_chan = ToUint(r.chan), !.busy = TRUE]
    IN  IF r.panic THEN [s1 EXCEPT !.panicked = TRUE]
        ELSE LET s2 == dma_channel_configure(r.st, L.dma_chan)
                 s3 == ensure_irq_handler(s2)
                 s4 == dma_channel_set_irq0_enabled(s3, L.dma_chan, TRUE)
                 s5 == Logged(register_tx_instance(StoreLocal(s4, p, L), p),
                              <<"register", i>>)
             IN ReturnInst(s5, i, L)

pio_spi_dma_tx_init(s, i) ==
    LET s1 == pio_program_init(s, i)
        r == dma_claim_unused_channel(s1, TRUE)
        p == IF s.aliased.tx THEN OwnerPtr(i) ELSE LocalPtr(i)
        L == [ZeroInst EXCEPT !.dma_chan = ToUint(r.chan)]
    IN  IF r.panic THEN [s1 EXCEPT !.panicked = TRUE]
        ELSE IF ChanIsNegative(L.dma_chan) THEN ReturnInst(StoreLocal(r.st, p, L), i, L)
        ELSE LET s2 == dma_channel_configure(r.st, L.dma_chan)
                 s3 == ensure_irq_handler(s2)
                 s4 == dma_channel_set_irq0_enabled(s3, L.dma_chan, TRUE)
                 s5 == Logged(register_tx_instance(StoreLocal(s4, p, L), p),
                              <<"register", i>>)
             IN ReturnInst(s5, i, L)

\* a start that programs one transfer less
pio_spi_dma_tx_start_short(s, i, buf, len) ==
    IF len = 0 THEN s
    ELSE LET s1 == [s EXCEPT !.inst[i].busy = TRUE]
             s2 == dma_channel_set_addr(s1, s1.inst[i].dma_chan, buf)
         IN dma_channel_set_trans_count(s2, s2.inst[i].dma_chan, len - 1)

pio_spi_dma_tx_start(s, i, buf, len) ==
    IF len = 0 THEN s
    ELSE LET s1 == [s EXCEPT !.inst[i].busy = TRUE]
             s2 == dma_channel_set_addr(s1, s1.inst[i].dma_chan, buf)
         IN dma_channel_set_trans_count(s2, s2.inst[i].dma_chan, len)

\* a wait that polls the busy flag of the instance, not the channel
tx_wait_on_flag(s, i) == ~s.inst[i].busy

\* pio_spi_dma_tx_wait: the two polling loops and the final store
tx_wait_dma_finished(s, i) == ~dma_channel_is_busy(s, s.inst[i].dma_chan)

\* a wait that does not look at the FIFO
tx_wait_fifo_skipped(s, i) == TRUE

tx_wait_fifo_drained(s, i) == pio_sm_is_tx_fifo_empty(s, i)

tx_wait_return(s, i) == [s EXCEPT !.inst[i].busy = FALSE]

pio_spi_dma_tx_busy(s, i) ==
    s.inst[i].busy \/ dma_channel_is_busy(s, s.inst[i].dma_chan)

pio_spi_dma_tx_set_callback(s, i, callback, user_data) ==
    [s EXCEPT !.inst[i].callback = callback, !.inst[i].callback_data = user_data]

\* an abort that leaves the channel running
pio_spi_dma_tx_abort_flag_only(s, i) ==
    Logged([s EXCEPT !.inst[i].busy = FALSE], <<"busy_false", i>>)

pio_spi_dma_tx_abort(s, i) ==
    Logged([dma_channel_abort(s, s.inst[i].dma_chan) EXCEPT !.inst[i].busy = FALSE],
           <<"busy_false", i>>)

\* a deinit that releases the channel before it disables its interrupt
pio_spi_dma_tx_deinit_release_first(s, i) ==
    LET s1 == pio_spi_dma_tx_abort(s, i)
        s2 == dma_channel_unclaim(s1, s1.inst[i].dma_chan)
        s3 == dma_channel_set_irq0_enabled(s2, s2.inst[i].dma_chan, FALSE)
        s4 == pio_sm_set_enabled(s3, i, FALSE)
        s5 == pio_remove_program(s4, i)
        s6 == Logged(unregister_tx_instance(s5, OwnerPtr(i)), <<"unregister", i>>)
    IN  [s6 EXCEPT !.inst[i].dma_chan = ToUint(-1)]

pio_spi_dma_tx_deinit(s, i) ==
    LET s1 == pio_spi_dma_tx_abort(s, i)
        s2 == dma_channel_set_irq0_enabled(s1, s1.inst[i].dma_chan, FALSE)
        s3 == dma_channel_unclaim(s2, s2.inst[i].dma_chan)
        s4 == pio_sm_set_enabled(s3, i, FALSE)
        s5 == pio_remove_program(s4, i)
        s6 == Logged(unregister_tx_instance(s5, OwnerPtr(i)), <<"unregister", i>>)
    IN  [s6 EXCEPT !.inst[i].dma_chan = ToUint(-1)]

(***************************************************************************)
(* RX implementation                                                       *)
(***************************************************************************)
pio_spi_dma_rx_init(s, i) ==
    LET s1 == pio_program_init(s, i)
        r == dma_claim_unused_channel(s1, TRUE)
        p == IF s.aliased.rx THEN OwnerPtr(i) ELSE LocalPtr(i)
        L == [ZeroInst EXCEPT !.dma_chan = ToUint(r.chan)]
    IN  IF r.panic THEN [s1 EXCEPT !.panicked = TRUE]
        ELSE IF ChanIsNegative(L.dma_chan) THEN ReturnInst(StoreLocal(r.st, p, L), i, L)
        ELSE LET s2 == dma_channel_configure(r.st, L.dma_chan)
                 s3 == ensure_irq_handler(s2)
                 s4 == dma_channel_set_irq0_enabled(s3, L.dma_chan, TRUE)
                 s5 == Logged(register_rx_instance(StoreLocal(s4, p, L), p),
                              <<"register", i>>)
             IN ReturnInst(s5, i, L)

\* a start that does not test len
pio_spi_dma_rx_start_nocheck(s, i, buf, len) ==
    LET s1 == [s EXCEPT !.inst[i].busy = TRUE]
        s2 == dma_channel_set_addr(s1, s1.inst[i].dma_chan, buf)
    IN  dma_channel_set_trans_count(s2, s2.inst[i].dma_chan, len)

pio_spi_dma_rx_start(s, i, buf, len) ==
    IF len = 0 THEN s
    ELSE LET s1 == [s EXCEPT !.inst[i].busy = TRUE]
             s2 == dma_channel_set_addr(s1, s1.inst[i].dma_chan, buf)
         IN dma_channel_set_trans_count(s2, s2.inst[i].dma_chan, len)

rx_wait_dma_finished(s, i) == ~dma_channel_is_busy(s, s.inst[i].dma_chan)

rx_wait_return(s, i) == [s EXCEPT !.inst[i].busy = FALSE]

pio_spi_dma_rx_busy(s, i) ==
    s.inst[i].busy \/ dma_channel_is_busy(s, s.inst[i].dma_chan)

pio_spi_dma_rx_set_callback(s, i, callback, user_data) ==
    [s EXCEPT !.inst[i].callback = callback, !.inst[i].callback_data = user_data]

pio_spi_dma_rx_abort(s, i) ==
    Logged([dma_channel_abort(s, s.inst[i].dma_chan) EXCEPT !.inst[i].busy = FALSE],
           <<"busy_false", i>>)

\* a flush that drains nothing
pio_spi_dma_rx_flush_nothing(s, i) == s

pio_spi_dma_rx_flush(s, i) == [s EXCEPT !.sm[i].fifo = <<>>]

pio_spi_dma_rx_deinit(s, i) ==
    LET s1 == pio_spi_dma_rx_abort(s, i)
        s2 == dma_channel_set_irq0_enabled(s1, s1.inst[i].dma_chan, FALSE)
        s3 == dma_channel_unclaim(s2, s2.inst[i].dma_chan)
        s4 == pio_sm_set_enabled(s3, i, FALSE)
        s5 == pio_remove_program(s4, i)
        s6 == Logged(unregister_rx_instance(s5, OwnerPtr(i)), <<"unregister", i>>)
    IN  [s6 EXCEPT !.inst[i].dma_chan = ToUint(-1)]

(***************************************************************************)
(* The hardware: one DMA transfer, one byte shifted out, one byte sampled  *)
(***************************************************************************)
Unwritten == 0 - 1

\* the instance whose init configured channel c: the channel moves bytes
\* to (TX) or from (RX) the FIFO of that instance's state machine
Holder(s, c) == CHOOSE i \in Ids : s.life[i] = "live" /\ s.inst[i].dma_chan = c

DmaCanMove(s, c) ==
    /\ s.dma[c].busy
    /\ s.dma[c].trans_count > 0
    /\ IF Holder(s, c) \in TxIds
       THEN Len(s.sm[Holder(s, c)].fifo) < FifoDepth
       ELSE s.sm[Holder(s, c)].fifo # <<>>

\* what lies behind the end of a buffer
Beyond == 0 - 2

\* the byte at position k of buffer buf: the channel does not know where the
\* buffer ends
MemAt(s, buf, k) == IF k \in DOMAIN s.mem[buf] THEN s.mem[buf][k] ELSE Beyond

\* one transfer of channel c, paced by the DREQ of the FIFO; the last one
\* clears BUSY and raises the channel's completion flag
DmaMove(s, c) ==
    LET ch == s.dma[c]
        n == ch.trans_count - 1
        ch2 == [ch EXCEPT !.trans_count = n, !.idx = @ + 1,
                          !.busy = (n > 0), !.intr = (@ \/ n = 0)]
        h == Holder(s, c)
    IN  IF h \in TxIds
        THEN [s EXCEPT !.dma[c] = ch2,
                       !.sm[h].fifo = Append(@, MemAt(s, ch.mem, ch.idx))]
        ELSE IF ch.idx \in DOMAIN s.mem[ch.mem]
        THEN [s EXCEPT !.dma[c] = ch2,
                       !.sm[h].fifo = Tail(@),
                       !.mem[ch.mem][ch.idx] = Head(s.sm[h].fifo)]
        ELSE [s EXCEPT !.dma[c] = ch2, !.sm[h].fifo = Tail(@)]

\* the TX state machine pulls the next byte and shifts it out
PioCanShiftOut(s, i) == s.sm[i].enabled /\ s.sm[i].loaded /\ s.sm[i].fifo # <<>>

PioShiftOut(s, i) ==
    [s EXCEPT !.sm[i].fifo = Tail(@),
              !.wire[i] = IF s.probe THEN Append(@, Head(s.sm[i].fifo)) ELSE @]

\* the RX state machine has sampled a byte and pushes it
PioCanShiftIn(s, i) ==
    s.sm[i].enabled /\ s.sm[i].loaded /\ Len(s.sm[i].fifo) < FifoDepth

PioShiftIn(s, i, byte) ==
    [s EXCEPT !.sm[i].fifo = Append(@, byte),
              !.wire[i] = IF /\ s.probe
                             /\ dma_channel_is_busy(s, s.inst[i].dma_chan)
                             /\ Len(@) < Len(s.mem[i])
                          THEN Append(@, byte) ELSE @]

(***************************************************************************)
(* Actions.  The main control flow of board b calls the driver; the        *)
(* interrupt handler and the hardware run beside it.                       *)
(***************************************************************************)
Upd(b, t) == board' = [board EXCEPT ![b] = t]

MainAt(b, at) == board[b].pc.at = at /\ ~board[b].panicked

Live(s, i) == s.life[i] = "live"

Datas(B) == UNION {[1 .. n -> B] : n \in 0 .. MaxLen}

\* the (callback, user_data) pairs the application registers
Callbacks == {<<NoFn, NoFn>>, <<"cb1", "ctx1">>, <<"cb2", "ctx2">>}

Blank(len) == [k \in 1 .. len |-> Unwritten]

FirstN(q, n) == SubSeq(q, 1, IF Len(q) < n THEN Len(q) ELSE n)

\* history kept beside a successful or failed init
AfterInit(s, t, i) ==
    [t EXCEPT !.life[i] = IF t.panicked THEN s.life[i] ELSE "live",
              !.phase[i] = "idle", !.wire[i] = <<>>, !.pre[i] = <<>>]

AfterStart(s, t, i, len) ==
    IF len = 0 THEN t
    ELSE IF ~s.probe THEN [t EXCEPT !.phase[i] = "started"]
    ELSE [t EXCEPT !.phase[i] = "started",
                   !.wire[i] = IF i \in TxIds THEN <<>> ELSE FirstN(s.sm[i].fifo, len),
                   !.pre[i] = IF i \in TxIds THEN s.sm[i].fifo ELSE <<>>]

\* phase[i]: "started" from a start with len > 0 until its completion is
\* observed: by the interrupt handler ("irq"), by wait ("waited"), by abort
\* or deinit ("aborted")
Completed(t, i, how) == [t EXCEPT !.phase[i] = how]

\* a start with len > 0 has been issued and neither wait nor abort has ended it
Pending(s, i) == s.phase[i] \in {"started", "irq"}

TxInit(b, i) ==
    /\ MainAt(b, "idle") /\ i \in TxIds /\ ~Live(board[b], i)
    /\ Upd(b, AfterInit(board[b],
                        pio_spi_dma_tx_init(Begin(board[b], "tx_init", i), i), i))

RxInit(b, i) ==
    /\ MainAt(b, "idle") /\ i \in RxIds /\ ~Live(board[b], i)
    /\ Upd(b, AfterInit(board[b],
                        pio_spi_dma_rx_init(Begin(board[b], "rx_init", i), i), i))

\* the application fills its buffer and calls pio_spi_dma_tx_start
TxStartOn(s, i, data) ==
    AfterStart(s, pio_spi_dma_tx_start(
                      [Begin(s, "start", i) EXCEPT
                           !.mem[i] = IF data = <<>> THEN @ ELSE data],
                      i, i, Len(data)), i, Len(data))

RxStartOn(s, i, len) ==
    AfterStart(s, pio_spi_dma_rx_start(
                      [Begin(s, "start", i) EXCEPT
                           !.mem[i] = IF len = 0 THEN @ ELSE Blank(len)],
                      i, i, len), i, len)

TxStart(b, i, data) ==
    /\ MainAt(b, "idle") /\ i \in TxIds /\ Live(board[b], i)
    /\ ~pio_spi_dma_tx_busy(board[b], i)
    /\ Upd(b, TxStartOn(board[b], i, data))

RxStart(b, i, len) ==
    /\ MainAt(b, "idle") /\ i \in RxIds /\ Live(board[b], i)
    /\ ~pio_spi_dma_rx_busy(board[b], i)
    /\ Upd(b, RxStartOn(board[b], i, len))

\* pio_spi_dma_tx_wait is entered; it returns through TxWaitDma and TxWaitFifo
TxWait(b, i) ==
    /\ MainAt(b, "idle") /\ i \in TxIds /\ Live(board[b], i)
    /\ Upd(b, [Quiet(board[b]) EXCEPT
                   !.pc = [at |-> "tx_wait_dma", id |-> i]])

\* pio_spi_dma_tx_blocking: start, then wait
TxBlocking(b, i, data) ==
    /\ MainAt(b, "idle") /\ i \in TxIds /\ Live(board[b], i)
    /\ ~pio_spi_dma_tx_busy(board[b], i)
    /\ Upd(b, [TxStartOn(board[b], i, data) EXCEPT
                   !.pc = [at |-> "tx_wait_dma", id |-> i]])

TxWaitDma(b) ==
    /\ MainAt(b, "tx_wait_dma")
    /\ tx_wait_dma_finished(board[b], board[b].pc.id)
    /\ Upd(b, [board[b] EXCEPT !.pc.at = "tx_wait_fifo"])

TxWaitFifo(b) ==
    /\ MainAt(b, "tx_wait_fifo")
    /\ tx_wait_fifo_drained(board[b], board[b].pc.id)
    /\ Upd(b, Completed([tx_wait_return(board[b],
                                        board[b].pc.id)
                            EXCEPT !.pc = IdlePc], board[b].pc.id, "waited"))

RxWait(b, i) ==
    /\ MainAt(b, "idle") /\ i \in RxIds /\ Live(board[b], i)
    /\ Upd(b, [Quiet(board[b]) EXCEPT
                   !.pc = [at |-> "rx_wait_dma", id |-> i]])

RxBlocking(b, i, len) ==
    /\ MainAt(b, "idle") /\ i \in RxIds /\ Live(board[b], i)
    /\ ~pio_spi_dma_rx_busy(board[b], i)
    /\ Upd(b, [RxStartOn(board[b], i, len) EXCEPT
                   !.pc = [at |-> "rx_wait_dma", id |-> i]])

RxWaitDma(b) ==
    /\ MainAt(b, "rx_wait_dma")
    /\ rx_wait_dma_finished(board[b], board[b].pc.id)
    /\ Upd(b, Completed([rx_wait_return(board[b],
                                        board[b].pc.id)
                            EXCEPT !.pc = IdlePc], board[b].pc.id, "waited"))

SetCallback(b, i, fn, ctx) ==
    /\ MainAt(b, "idle") /\ Live(board[b], i)
    /\ Upd(b, IF i \in TxIds
              THEN pio_spi_dma_tx_set_callback(Quiet(board[b]),
                                               i, fn, ctx)
              ELSE pio_spi_dma_rx_set_callback(Quiet(board[b]),
                                               i, fn, ctx))

Abort(b, i) ==
    /\ MainAt(b, "idle") /\ Live(board[b], i)
    /\ Upd(b, Completed(IF i \in TxIds
                        THEN pio_spi_dma_tx_abort(Quiet(board[b]), i)
                        ELSE pio_spi_dma_rx_abort(Quiet(board[b]), i),
                        i, "aborted"))

\* the bytes a flush discards are taken off the record of the bytes delivered
AfterFlush(s, t, i) ==
    IF s.probe /\ dma_channel_is_busy(s, s.inst[i].dma_chan)
    THEN [t EXCEPT !.wire[i] = FirstN(@, s.dma[s.inst[i].dma_chan].idx - 1)]
    ELSE t

Flush(b, i) ==
    /\ MainAt(b, "idle") /\ i \in RxIds /\ Live(board[b], i)
    /\ Upd(b, AfterFlush(board[b], pio_spi_dma_rx_flush(Quiet(board[b]), i), i))

Deinit(b, i) ==
    /\ MainAt(b, "idle") /\ Live(board[b], i)
    /\ Upd(b, [Completed(IF i \in TxIds
                         THEN pio_spi_dma_tx_deinit(Begin(board[b], "deinit", i), i)
                         ELSE pio_spi_dma_rx_deinit(Begin(board[b], "deinit", i), i),
                         i, "aborted")
                  EXCEPT !.life[i] = "dead"])

\* the channels a pass of the handler has acknowledged
Acked(s, t) == {c \in Chans : s.dma[c].intr /\ ~t.dma[c].intr}

Owners(s, C) == {i \in Ids : Live(s, i) /\ s.inst[i].dma_chan \in C}

IrqPass(s) ==
    LET t == dma_irq_handler(Begin(s, "irq", 0))
    IN  [t EXCEPT !.phase =
            [i \in Ids |-> IF i \in Owners(s, Acked(s, t)) /\ @[i] = "started"
                           THEN "irq" ELSE @[i]]]

\* DMA_IRQ_0 is taken: the handler runs to its end
Irq(b) ==
    /\ IrqPending(board[b])
    /\ Upd(b, IrqPass(board[b]))

DmaTransfer(b, c) ==
    /\ DmaCanMove(board[b], c)
    /\ Upd(b, DmaMove(board[b], c))

ShiftOut(b, i) ==
    /\ i \in TxIds /\ PioCanShiftOut(board[b], i)
    /\ Upd(b, PioShiftOut(board[b], i))

ShiftIn(b, i, byte) ==
    /\ i \in RxIds /\ PioCanShiftIn(board[b], i)
    /\ Upd(b, PioShiftIn(board[b], i, byte))

(***************************************************************************)
(* Next: every driver operation on the instances the application uses,     *)
(* the interrupt and the hardware                                          *)
(***************************************************************************)
Drv == board["A"].drv

Alphabet == board["A"].alphabet

Next ==
    \/ \E i \in Drv : TxInit("A", i)
    \/ \E i \in Drv : RxInit("A", i)
    \/ \E i \in Drv, data \in Datas(Alphabet) : TxStart("A", i, data)
    \/ \E i \in Drv, len \in 0 .. MaxLen : RxStart("A", i, len)
    \/ \E i \in Drv : TxWait("A", i)
    \/ \E i \in Drv, data \in Datas(Alphabet) : TxBlocking("A", i, data)
    \/ TxWaitDma("A")
    \/ TxWaitFifo("A")
    \/ \E i \in Drv : RxWait("A", i)
    \/ \E i \in Drv, len \in 0 .. MaxLen : RxBlocking("A", i, len)
    \/ RxWaitDma("A")
    \/ \E i \in Drv, cb \in Callbacks : SetCallback("A", i, cb[1], cb[2])
    \/ \E i \in Drv : Abort("A", i)
    \/ \E i \in Drv : Flush("A", i)
    \/ \E i \in Drv : Deinit("A", i)
    \/ Irq("A")
    \/ \E c \in Chans : DmaTransfer("A", c)
    \/ \E i \in Drv : ShiftOut("A", i)
    \/ \E i \in Drv, byte \in Alphabet : ShiftIn("A", i, byte)

\* the build outcome that matters to an application using instance i only
BuildFor(i, a) == [tx |-> (i \in TxIds /\ a), rx |-> (i \in RxIds /\ a)]

Unused == InitBoard([tx |-> FALSE, rx |-> FALSE], {}, {}, FALSE, FALSE)

(***************************************************************************)
(* Spec: an application that drives one TX or one RX instance through      *)
(* every operation of the driver                                           *)
(***************************************************************************)
Init ==
    \E i \in {1, 101}, a \in BOOLEAN :
        board = [b \in Boards |->
                    IF b = "A" THEN InitBoard(BuildFor(i, a), {i}, {0}, FALSE, TRUE)
                    ELSE Unused]

Spec == Init /\ [][Next]_vars

(***************************************************************************)
(* SpecXfer: an application that has initialised one TX or one RX instance *)
(* and transfers distinguishable bytes with it; the wire is recorded       *)
(***************************************************************************)
Initialised(s, i) ==
    AfterInit(s, IF i \in TxIds THEN pio_spi_dma_tx_init(s, i)
                 ELSE pio_spi_dma_rx_init(s, i), i)

InitXfer ==
    \E i \in {1, 101}, a \in BOOLEAN :
        board = [b \in Boards |->
                    IF b = "A"
                    THEN Initialised(InitBoard(BuildFor(i, a), {i}, Bytes, TRUE, FALSE), i)
                    ELSE Unused]

NextXfer ==
    \/ \E i \in Drv, data \in Datas(Alphabet) : TxStart("A", i, data)
    \/ \E i \in Drv, len \in 0 .. MaxLen : RxStart("A", i, len)
    \/ \E i \in Drv : TxWait("A", i)
    \/ \E i \in Drv, data \in Datas(Alphabet) : TxBlocking("A", i, data)
    \/ TxWaitDma("A")
    \/ TxWaitFifo("A")
    \/ \E i \in Drv : RxWait("A", i)
    \/ \E i \in Drv, len \in 0 .. MaxLen : RxBlocking("A", i, len)
    \/ RxWaitDma("A")
    \/ \E i \in Drv : Abort("A", i)
    \/ \E i \in Drv : Flush("A", i)
    \/ Irq("A")
    \/ \E c \in Chans : DmaTransfer("A", c)
    \/ \E i \in Drv : ShiftOut("A", i)
    \/ \E i \in Drv, byte \in Alphabet : ShiftIn("A", i, byte)

SpecXfer == InitXfer /\ [][NextXfer]_vars

(***************************************************************************)
(* SpecReg: an application that creates and destroys TX and RX instances   *)
(***************************************************************************)
\* the application has an instance variable for every TX (RX) instance it may
\* create and one of the other direction
RegDrvs == {TxIds \cup {101}, RxIds \cup {1}}

InitReg ==
    \E al \in Builds, d \in RegDrvs :
        board = [b \in Boards |->
                    IF b = "A" THEN InitBoard(al, d, {0}, FALSE, FALSE) ELSE Unused]

\* the instance variables are interchangeable and each holds one instance in
\* its lifetime: the application uses the first unused one of the direction
Fresh(i) == board["A"].life[i] = "none"

NextVar(S) == {i \in S : Fresh(i) /\ \A j \in S : Fresh(j) => i <= j}

CanInit(i) == i \in NextVar(IF i \in TxIds THEN Drv \cap TxIds ELSE Drv \cap RxIds)

NextReg ==
    \/ \E i \in Drv : CanInit(i) /\ TxInit("A", i)
    \/ \E i \in Drv : CanInit(i) /\ RxInit("A", i)
    \/ \E i \in Drv : Deinit("A", i)

SpecReg == InitReg /\ [][NextReg]_vars

(***************************************************************************)
(* SpecPing: the ping master (board A) and the echo slave (board B), each  *)
(* with its TX instance 1 and its RX instance 101, over a link that loses  *)
(* nothing: a byte leaves a TX state machine when the RX state machine of  *)
(* the other board has room for it                                         *)
(***************************************************************************)
PingTx == 1

PingRx == 101

App(b, at) == MainAt(b, "idle") /\ board[b].app.at = at

\* tx_byte = sequence++; pio_spi_dma_rx_flush(&rx);
MasterPrepare ==
    /\ App("A", "top") /\ board["A"].app.sequence < MaxPings
    /\ Upd("A", [pio_spi_dma_rx_flush(board["A"], PingRx) EXCEPT
                    !.mem[PingTx] = <<board["A"].app.sequence>>,
                    !.app.sequence = (@ + 1) % 256,
                    !.app.at = "rx_start"])

\* pio_spi_dma_rx_start(&rx, &rx_byte, 1);
MasterRxStart ==
    /\ App("A", "rx_start")
    /\ Upd("A", [pio_spi_dma_rx_start(board["A"], PingRx, PingRx, 1) EXCEPT
                    !.app.at = "send"])

\* pio_spi_dma_tx_blocking(&tx, &tx_byte, 1); it returns through TxWaitDma
\* and TxWaitFifo
MasterSend ==
    /\ App("A", "send")
    /\ Upd("A", [pio_spi_dma_tx_start(board["A"], PingTx, PingTx, 1) EXCEPT
                    !.pc = [at |-> "tx_wait_dma", id |-> PingTx],
                    !.app.sent = Append(@, board["A"].mem[PingTx][1]),
                    !.app.at = "poll"])

\* the poll of the master finds !pio_spi_dma_rx_busy(&rx): got_response
MasterGotResponse ==
    /\ App("A", "poll")
    /\ ~pio_spi_dma_rx_busy(board["A"], PingRx)
    /\ Upd("A", [board["A"] EXCEPT
                    !.app.rcvd = Append(@, board["A"].mem[PingRx][1]),
                    !.app.at = "top"])

\* pio_spi_dma_rx_start(&rx, &rx_byte, 1);
SlaveRxStart ==
    /\ App("B", "top")
    /\ Upd("B", [pio_spi_dma_rx_start(board["B"], PingRx, PingRx, 1) EXCEPT
                    !.app.at = "poll"])

\* while (pio_spi_dma_rx_busy(&rx)) ends
SlaveGotByte ==
    /\ App("B", "poll")
    /\ ~pio_spi_dma_rx_busy(board["B"], PingRx)
    /\ Upd("B", [board["B"] EXCEPT !.app.at = "echo"])

\* pio_spi_dma_tx_blocking(&tx, &rx_byte, 1);
SlaveEcho ==
    /\ App("B", "echo")
    /\ Upd("B", [pio_spi_dma_tx_start(board["B"], PingTx, PingRx, 1) EXCEPT
                    !.pc = [at |-> "tx_wait_dma", id |-> PingTx],
                    !.app.at = "top"])

\* one byte crosses the link from the TX state machine of board a to the RX
\* state machine of board b
Link(a, b) ==
    /\ PioCanShiftOut(board[a], PingTx)
    /\ PioCanShiftIn(board[b], PingRx)
    /\ board' = [board EXCEPT
                    ![a] = PioShiftOut(board[a], PingTx),
                    ![b] = PioShiftIn(board[b], PingRx, Head(board[a].sm[PingTx].fifo))]

\* something can still bring the response to the master: a step of the
\* slave, of the link, of a DMA channel or of an interrupt handler is possible
CanLink(a, b) == PioCanShiftOut(board[a], PingTx) /\ PioCanShiftIn(board[b], PingRx)

PingProgress ==
    \/ App("B", "top")
    \/ App("B", "poll") /\ ~pio_spi_dma_rx_busy(board["B"], PingRx)
    \/ App("B", "echo")
    \/ MainAt("B", "tx_wait_dma") /\ tx_wait_dma_finished(board["B"], PingTx)
    \/ MainAt("B", "tx_wait_fifo") /\ tx_wait_fifo_drained(board["B"], PingTx)
    \/ CanLink("A", "B")
    \/ CanLink("B", "A")
    \/ \E b \in Boards : IrqPending(board[b])
    \/ \E b \in Boards, c \in Chans : DmaCanMove(board[b], c)

\* time_reached(deadline) with the receive still busy: timeouts++ and
\* pio_spi_dma_rx_abort(&rx).  The deadline passes only when nothing is left
\* that could bring the response.
MasterTimeout ==
    /\ App("A", "poll")
    /\ pio_spi_dma_rx_busy(board["A"], PingRx)
    /\ ~PingProgress
    /\ Upd("A", [pio_spi_dma_rx_abort(board["A"], PingRx) EXCEPT
                    !.app.timeouts = @ + 1,
                    !.app.at = "top"])

PingBoard(al) ==
    [Initialised(Initialised(InitBoard(al, {PingTx, PingRx}, {}, FALSE, FALSE),
                             PingTx), PingRx)
        EXCEPT !.mem[PingTx] = <<0>>, !.mem[PingRx] = <<0>>, !.app.at = "top"]

InitPing == \E al \in Builds : board = [b \in Boards |-> PingBoard(al)]

NextPing ==
    \/ MasterPrepare
    \/ MasterRxStart
    \/ MasterSend
    \/ TxWaitDma("A")
    \/ TxWaitFifo("A")
    \/ MasterGotResponse
    \/ MasterTimeout
    \/ SlaveRxStart
    \/ SlaveGotByte
    \/ SlaveEcho
    \/ TxWaitDma("B")
    \/ TxWaitFifo("B")
    \/ Link("A", "B")
    \/ Link("B", "A")
    \/ \E b \in Boards : Irq(b)
    \/ \E b \in Boards, c \in Chans : DmaTransfer(b, c)

SpecPing == InitPing /\ [][NextPing]_vars

(***************************************************************************)
(* SpecFlush: an application that has initialised one RX instance; the     *)
(* bytes that arrive before its flush call are 0, the bytes that arrive    *)
(* after it are 1                                                          *)
(***************************************************************************)
\* pio_spi_dma_rx_flush with no transfer in flight; pre[i] keeps the bytes
\* that were in the FIFO at the call
FlushFresh(b, i) ==
    /\ MainAt(b, "idle") /\ i \in RxIds /\ Live(board[b], i)
    /\ ~Pending(board[b], i)
    /\ ~dma_channel_is_busy(board[b], board[b].inst[i].dma_chan)
    /\ Upd(b, [pio_spi_dma_rx_flush(Quiet(board[b]), i) EXCEPT
                  !.alphabet = {1},
                  !.pre[i] = board[b].sm[i].fifo])

InitFlush ==
    \E a \in BOOLEAN :
        board = [b \in Boards |->
                    IF b = "A"
                    THEN Initialised(InitBoard(BuildFor(PingRx, a), {PingRx}, {0},
                                               FALSE, FALSE), PingRx)
                    ELSE Unused]

NextFlush ==
    \/ \E i \in Drv, len \in 0 .. MaxLen : RxStart("A", i, len)
    \/ \E i \in Drv : RxWait("A", i)
    \/ \E i \in Drv, len \in 0 .. MaxLen : RxBlocking("A", i, len)
    \/ RxWaitDma("A")
    \/ \E i \in Drv : Abort("A", i)
    \/ \E i \in Drv : FlushFresh("A", i)
    \/ Irq("A")
    \/ \E c \in Chans : DmaTransfer("A", c)
    \/ \E i \in Drv, byte \in Alphabet : ShiftIn("A", i, byte)

SpecFlush == InitFlush /\ [][NextFlush]_vars

(***************************************************************************)
(* SpecRestart: an application that calls start again while the transfer   *)
(* of its instance is in flight.  The bytes of the first buffer are 0, the *)
(* bytes of every later buffer are 1.  Both answers of the DMA controller  *)
(* to a trigger on a busy channel are covered.                             *)
(***************************************************************************)
Ones(n) == [k \in 1 .. n |-> 1]

\* start(buffer2, n) while the channel of the instance is moving a transfer
Restart(b, i, n) ==
    /\ MainAt(b, "idle") /\ Live(board[b], i)
    /\ Pending(board[b], i)
    /\ dma_channel_is_busy(board[b], board[b].inst[i].dma_chan)
    /\ Upd(b, [(IF i \in TxIds THEN TxStartOn(board[b], i, Ones(n))
                ELSE RxStartOn(board[b], i, n))
                  EXCEPT !.alphabet = {1}])

InitRestart ==
    \E i \in {PingTx, PingRx}, a \in BOOLEAN, r \in BOOLEAN :
        board = [b \in Boards |->
                    IF b = "A"
                    THEN [Initialised(InitBoard(BuildFor(i, a), {i}, {0}, TRUE, FALSE), i)
                             EXCEPT !.retrigger = r]
                    ELSE Unused]

NextRestart ==
    \/ \E i \in Drv, data \in Datas(Alphabet) : TxStart("A", i, data)
    \/ \E i \in Drv, len \in 0 .. MaxLen : RxStart("A", i, len)
    \/ \E i \in Drv, n \in 1 .. MaxLen : Restart("A", i, n)
    \/ \E i \in Drv : TxWait("A", i)
    \/ TxWaitDma("A")
    \/ TxWaitFifo("A")
    \/ \E i \in Drv : RxWait("A", i)
    \/ RxWaitDma("A")
    \/ Irq("A")
    \/ \E c \in Chans : DmaTransfer("A", c)
    \/ \E i \in Drv : ShiftOut("A", i)
    \/ \E i \in Drv, byte \in Alphabet : ShiftIn("A", i, byte)

SpecRestart == InitRestart /\ [][NextRestart]_vars

(***************************************************************************)
(* SpecFifth: an application that has created NumTx TX instances, one more *)
(* than the table has slots, and sends with the first and with the last    *)
(***************************************************************************)
RECURSIVE InitialisedUpTo(_, _)
InitialisedUpTo(s, n) ==
    IF n = 0 THEN s ELSE Initialised(InitialisedUpTo(s, n - 1), n)

InitFifth ==
    \E a \in BOOLEAN :
        board = [b \in Boards |->
                    IF b = "A"
                    THEN InitialisedUpTo(InitBoard(BuildFor(PingTx, a), {PingTx, NumTx},
                                                   {0}, FALSE, FALSE), NumTx)
                    ELSE Unused]

NextFifth ==
    \/ \E i \in Drv, data \in Datas(Alphabet) : TxStart("A", i, data)
    \/ \E i \in Drv : TxWait("A", i)
    \/ TxWaitDma("A")
    \/ TxWaitFifo("A")
    \/ Irq("A")
    \/ \E c \in Chans : DmaTransfer("A", c)
    \/ \E i \in Drv : ShiftOut("A", i)

SpecFifth == InitFifth /\ [][NextFifth]_vars

(***************************************************************************)
(* SpecBlocking: an application that sends with pio_spi_dma_tx_blocking    *)
(* only.  The DMA keeps moving bytes, the TX state machine keeps pulling   *)
(* its FIFO and the polling loops of wait keep running; nothing is assumed *)
(* about the interrupt being taken.                                        *)
(***************************************************************************)
InitBlocking ==
    \E a \in BOOLEAN :
        board = [b \in Boards |->
                    IF b = "A"
                    THEN Initialised(InitBoard(BuildFor(PingTx, a), {PingTx},
                                               Bytes, TRUE, FALSE), PingTx)
                    ELSE Unused]

NextBlocking ==
    \/ \E data \in Datas(Alphabet) : TxBlocking("A", PingTx, data)
    \/ TxWaitDma("A")
    \/ TxWaitFifo("A")
    \/ Irq("A")
    \/ \E c \in Chans : DmaTransfer("A", c)
    \/ ShiftOut("A", PingTx)

SpecBlocking ==
    /\ InitBlocking /\ [][NextBlocking]_vars
    /\ WF_vars(TxWaitDma("A"))
    /\ WF_vars(TxWaitFifo("A"))
    /\ WF_vars(\E c \in Chans : DmaTransfer("A", c))
    /\ WF_vars(ShiftOut("A", PingTx))

(***************************************************************************)
(* SpecSeq: the ping loop of main() seen from its counters.  What the      *)
(* driver and the link do with a ping is an input here: a response with    *)
(* the byte sent, a response with another byte, or no response.            *)
(* board is the record of the locals of main().                            *)
(***************************************************************************)
MaxSeqPings == 300      \* pings the loop makes

\* a variant: the counter stops at its largest value
next_sequence_saturating(q) == IF q = 255 THEN 255 ELSE q + 1

\* sequence++ on a uint8_t
next_sequence(q) == (q + 1) % 256

\* uint8_t sequence = 0; pings_sent = 0;
InitSeq ==
    board = [at |-> "top", sequence |-> 0, tx_byte |-> 0, rx_byte |-> 0,
             pings_sent |-> 0, result |-> "none"]

\* tx_byte = sequence++; flush; rx_start
SeqPrepare ==
    /\ board.at = "top" /\ board.pings_sent < MaxSeqPings
    /\ board' = [board EXCEPT !.tx_byte = board.sequence,
                              !.sequence = next_sequence(@),
                              !.result = "none",
                              !.at = "send"]

\* pio_spi_dma_tx_blocking(&tx, &tx_byte, 1); pings_sent++;
SeqSend ==
    /\ board.at = "send"
    /\ board' = [board EXCEPT !.pings_sent = @ + 1, !.at = "poll"]

\* got_response, then the check rx_byte == tx_byte
SeqGotResponse(byte) ==
    /\ board.at = "poll"
    /\ board' = [board EXCEPT !.rx_byte = byte,
                              !.result = IF byte = board.tx_byte
                                         THEN "reply" ELSE "error",
                              !.at = "top"]

\* time_reached(deadline): timeouts++
SeqTimeout ==
    /\ board.at = "poll"
    /\ board' = [board EXCEPT !.result = "timeout", !.at = "top"]

NextSeq ==
    \/ SeqPrepare
    \/ SeqSend
    \/ \E byte \in {board.tx_byte, 255 - board.tx_byte} : SeqGotResponse(byte)
    \/ SeqTimeout

SpecSeq == InitSeq /\ [][NextSeq]_vars

(***************************************************************************)
(* SpecClock: the clock report of main().  `float` is IEEE single          *)
(* precision: a positive value is m * 2^e with 2^23 <= m < 2^24, and every *)
(* operation rounds its exact result to the nearest such value, ties to    *)
(* the even m.  board is here the record of the locals of main().          *)
(***************************************************************************)
MantBits == 24

MantMin == 2 ^ (MantBits - 1)

MantMax == 2 ^ MantBits

\* 1.0f
FOne == [m |-> MantMin, e |-> 1 - MantBits]

\* q + 1 when the remainder r of a division by D is more than half of D, or
\* exactly half with q odd; then renormalised
RoundHalfEven(q, r, e, D) ==
    LET up == (2 * r > D) \/ (2 * r = D /\ q % 2 = 1)
        q2 == IF up THEN q + 1 ELSE q
    IN  IF q2 = MantMax THEN [m |-> MantMin, e |-> e + 1] ELSE [m |-> q2, e |-> e]

\* long division: quotient bits are produced until the quotient has MantBits
RECURSIVE DivBits(_, _, _, _)
DivBits(q, r, e, D) ==
    IF q >= MantMin THEN RoundHalfEven(q, r, e, D)
    ELSE LET b == IF 2 * r >= D THEN 1 ELSE 0
         IN  DivBits(2 * q + b, 2 * r - b * D, e - 1, D)

\* (float)N / (float)D for integers 0 < N, D < 2^24 (exactly representable)
FDivInt(N, D) == DivBits(N \div D, N % D, 0, D)

\* the least s with P \div 2^s < 2^24
RECURSIVE ShiftFor(_, _)
ShiftFor(P, s) == IF P \div (2 ^ s) < MantMax THEN s ELSE ShiftFor(P, s + 1)

\* (float)k * f for a small integer k
FMulInt(k, f) ==
    LET P == k * f.m
        s == ShiftFor(P, 0)
    IN  RoundHalfEven(P \div (2 ^ s), P % (2 ^ s), f.e + s, 2 ^ s)

\* (float)N / f
FDiv(N, f) ==
    LET q == FDivInt(N, f.m)
    IN  [m |-> q.m, e |-> q.e - f.e]

\* f < 1.0f
FLessThanOne(f) == f.e < 1 - MantBits

\* f > (float)n for an integer 0 < n < 2^7
FGreaterThanInt(f, n) ==
    IF f.e >= 0 THEN f.m * (2 ^ f.e) > n
    ELSE IF 0 - f.e >= MantBits THEN FALSE
    ELSE f.m > n * (2 ^ (0 - f.e))

MaxSysClk == 64         \* largest system clock, Hz
MaxFreq == 6            \* largest SPI_FREQ_HZ, Hz

\* uint32_t sys_clk = clock_get_hz(clk_sys);
InitClock ==
    \E c \in 1 .. MaxSysClk, f \in 1 .. MaxFreq :
        board = [at |-> "divide", sys_clk |-> c, SPI_FREQ_HZ |-> f,
                 tx_divider |-> FOne, actual_bit_rate |-> FOne]

\* float tx_divider = (float)sys_clk / (12.0f * SPI_FREQ_HZ);
ClockDivide ==
    /\ board.at = "divide"
    /\ board' = [board EXCEPT
                    !.tx_divider = FDivInt(board.sys_clk, 12 * board.SPI_FREQ_HZ),
                    !.at = "clamp"]

\* if (tx_divider < 1.0f) tx_divider = 1.0f;
ClockClamp ==
    /\ board.at = "clamp"
    /\ board' = [board EXCEPT
                    !.tx_divider = IF FLessThanOne(@) THEN FOne ELSE @,
                    !.at = "actual"]

\* float actual_bit_rate = (float)sys_clk / (12.0f * tx_divider);
ClockActual ==
    /\ board.at = "actual"
    /\ board' = [board EXCEPT
                    !.actual_bit_rate = FDiv(board.sys_clk, FMulInt(12, board.tx_divider)),
                    !.at = "done"]

NextClock == ClockDivide \/ ClockClamp \/ ClockActual

SpecClock == InitClock /\ [][NextClock]_vars

(***************************************************************************)
(* C1: start(buffer, N) with N > 0 followed by wait() transfers exactly N  *)
(* bytes.  When pio_spi_dma_tx_wait returns, the bytes the TX state        *)
(* machine has taken since the start are the buffer, in order (after the   *)
(* bytes that were still in its FIFO at the start); when                   *)
(* pio_spi_dma_rx_wait returns, the buffer holds the first N bytes the RX  *)
(* state machine delivered, in arrival order.                              *)
(***************************************************************************)
C1_TxWaitPost(s, i) ==
    Pending(s, i) =>
        /\ s.wire[i] = s.pre[i] \o s.mem[i]
        /\ s.dma[s.inst[i].dma_chan].trans_count = 0

C1_RxWaitPost(s, i) ==
    Pending(s, i) =>
        /\ s.mem[i] = s.wire[i]
        /\ \A k \in 1 .. Len(s.mem[i]) : s.mem[i][k] \in Bytes
        /\ s.dma[s.inst[i].dma_chan].trans_count = 0

C1_StartWaitTransfersBuffer ==
    [][/\ TxWaitFifo("A") => C1_TxWaitPost(board["A"], board["A"].pc.id)
       /\ RxWaitDma("A") => C1_RxWaitPost(board["A"], board["A"].pc.id)]_vars

\* a wait has returned after a transfer of MaxLen bytes, not all equal
C1_Witness ==
    \E i \in Drv :
        /\ board["A"].phase[i] = "waited"
        /\ board["A"].pc.at = "idle"
        /\ Len(board["A"].mem[i]) = MaxLen
        /\ board["A"].wire[i] = board["A"].pre[i] \o board["A"].mem[i]
        /\ \E k \in 1 .. MaxLen : board["A"].mem[i][k] # board["A"].mem[i][1]

C1_WitnessRx == C1_Witness /\ Drv \subseteq RxIds

(***************************************************************************)
(* C2: round trip.  The master never declares a timeout, and the bytes it  *)
(* has received are the bytes it has sent, in order: the received sequence *)
(* is a prefix of the sent one and lags it by at most the ping in flight.  *)
(***************************************************************************)
C2_RoundTrip ==
    /\ board["A"].app.timeouts = 0
    /\ Len(board["A"].app.rcvd) <= Len(board["A"].app.sent)
    /\ board["A"].app.rcvd = FirstN(board["A"].app.sent, Len(board["A"].app.rcvd))
    /\ board["A"].app.at = "top" => board["A"].app.rcvd = board["A"].app.sent

(***************************************************************************)
(* C3: for every live instance the owner's busy flag is true exactly when  *)
(* a start with length > 0 has been issued and no completion of it         *)
(* (interrupt, abort, wait returning) has been observed.                   *)
(***************************************************************************)
C3_BusyIffPending ==
    \A i \in Drv :
        Live(board["A"], i) =>
            (board["A"].inst[i].busy <=> board["A"].phase[i] = "started")

(***************************************************************************)
(* C4: when the interrupt handler runs for the completion of a transfer    *)
(* started on a live instance, it acknowledges the channel, clears busy    *)
(* and then invokes the callback the owner has set, once, with its         *)
(* context; with a NULL callback it invokes nothing.                       *)
(***************************************************************************)
C4_Handled(i, p) ==
    << <<"irq", 0>>,
       <<"ack", board["A"].inst[i].dma_chan>>,
       <<"busy_clear", p>> >>
    \o (IF board["A"].inst[i].callback # NoFn
        THEN << <<"call", board["A"].inst[i].callback,
                  board["A"].inst[i].callback_data>> >>
        ELSE <<>>)

C4_Completes(i) ==
    /\ Live(board["A"], i)
    /\ board["A"].phase[i] = "started"
    /\ dma_channel_get_irq0_status(board["A"], board["A"].inst[i].dma_chan)

C4_CallbackInvokedOnce ==
    [][Irq("A") =>
          \A i \in Drv :
              C4_Completes(i) =>
                  \E p \in {OwnerPtr(i), LocalPtr(i)} :
                      board'["A"].log = C4_Handled(i, p)]_vars

(***************************************************************************)
(* C5: abort() on a TX or RX instance, at any point of a transfer, leaves  *)
(* busy() false: the flag is false and the channel is not in flight.       *)
(***************************************************************************)
C5_BusyAfter(i) ==
    IF i \in TxIds THEN pio_spi_dma_tx_busy(board'["A"], i)
    ELSE pio_spi_dma_rx_busy(board'["A"], i)

C5_AbortLeavesNotBusy ==
    [][\A i \in Drv : Abort("A", i) => ~C5_BusyAfter(i)]_vars

\* an abort has cut a transfer of which a part had been moved
C5_Witness ==
    \E i \in Drv :
        /\ Live(board["A"], i)
        /\ board["A"].phase[i] = "aborted"
        /\ ~board["A"].inst[i].busy
        /\ ~dma_channel_is_busy(board["A"], board["A"].inst[i].dma_chan)
        /\ board["A"].dma[board["A"].inst[i].dma_chan].trans_count > 0
        /\ board["A"].dma[board["A"].inst[i].dma_chan].trans_count
               < Len(board["A"].mem[i])

(***************************************************************************)
(* C6: with 4 live instances of a direction registered, a fifth init() of  *)
(* that direction (a DMA channel being free) gives its caller a failure    *)
(* indication: the returned instance carries the invalid channel.          *)
(***************************************************************************)
LiveOf(S) == {j \in S : Live(board["A"], j)}

C6_FullTable(i) ==
    /\ FreeChans(board["A"]) # {}
    /\ IF i \in TxIds
       THEN Cardinality(LiveOf(TxIds)) = NumSlots
            /\ FreeSlots(board["A"].tx_instances) = {}
       ELSE Cardinality(LiveOf(RxIds)) = NumSlots
            /\ FreeSlots(board["A"].rx_instances) = {}

C6_FifthInitFails ==
    [][\A i \in Drv :
          ((TxInit("A", i) \/ RxInit("A", i)) /\ C6_FullTable(i)) =>
              board'["A"].inst[i].dma_chan = InvalidChan]_vars

(***************************************************************************)
(* C7: the registration made by init() writes a pointer to the instance    *)
(* into the lowest free slot of the table of its direction and changes no  *)
(* other slot; with the 4 slots occupied the table is unchanged; the table *)
(* of the other direction is unchanged.                                    *)
(***************************************************************************)
C7_Registered(old, new, i) ==
    IF FreeSlots(old) = {}
    THEN new = old
    ELSE \E p \in {OwnerPtr(i), LocalPtr(i)} :
             new = [old EXCEPT ![Min(FreeSlots(old))] = p]

C7_RegisterFrame ==
    [][\A i \in Drv :
          /\ (TxInit("A", i) /\ ~board'["A"].panicked) =>
                 /\ C7_Registered(board["A"].tx_instances,
                                  board'["A"].tx_instances, i)
                 /\ board'["A"].rx_instances = board["A"].rx_instances
          /\ (RxInit("A", i) /\ ~board'["A"].panicked) =>
                 /\ C7_Registered(board["A"].rx_instances,
                                  board'["A"].rx_instances, i)
                 /\ board'["A"].tx_instances = board["A"].tx_instances]_vars

PtrsOf(i) == {OwnerPtr(i), LocalPtr(i)}

InTable(i) ==
    \E k \in Slots : \/ board["A"].tx_instances[k] \in PtrsOf(i)
                     \/ board["A"].rx_instances[k] \in PtrsOf(i)

\* a fifth instance is live beside 4 registered ones and holds no slot
C7_Witness ==
    \E S \in {TxIds, RxIds} :
        /\ Cardinality(LiveOf(S)) = NumSlots + 1
        /\ Cardinality({i \in LiveOf(S) : InTable(i)}) = NumSlots
        /\ ~board["A"].panicked

(***************************************************************************)
(* C8: init() with no DMA channel free returns normally an instance whose  *)
(* channel is the invalid sentinel, detectable by dma_chan < 0, that holds *)
(* no channel, has no interrupt source enabled and is not registered.      *)
(***************************************************************************)
C8_ExhaustedInitReturnsInvalid ==
    [][\A i \in Drv :
          ((TxInit("A", i) \/ RxInit("A", i)) /\ FreeChans(board["A"]) = {}) =>
              /\ ~board'["A"].panicked
              /\ board'["A"].inst[i].dma_chan = InvalidChan
              /\ ChanIsNegative(board'["A"].inst[i].dma_chan)
              /\ board'["A"].dma = board["A"].dma
              /\ board'["A"].tx_instances = board["A"].tx_instances
              /\ board'["A"].rx_instances = board["A"].rx_instances]_vars

(***************************************************************************)
(* C9: a deinitialized instance is absent from the tables, and as long as  *)
(* no more than 4 instances of a direction have been created every live    *)
(* instance of that direction is registered.                               *)
(***************************************************************************)
Created(S) == {j \in S : board["A"].life[j] # "none"}

C9_DeinitFreesSlot ==
    /\ \A i \in Drv : board["A"].life[i] = "dead" => ~InTable(i)
    /\ \A S \in {TxIds, RxIds} :
           Cardinality(Created(S)) <= NumSlots =>
               \A i \in LiveOf(S) : InTable(i)

(***************************************************************************)
(* C10: deinit(), with or without a transfer in flight, cancels the        *)
(* transfer (busy false, channel stopped), disables the channel's          *)
(* interrupt source, releases the channel so that a later init() can claim *)
(* it, disables the state machine, unloads its program and sets the        *)
(* channel field to the invalid sentinel; in the order abort, interrupt    *)
(* disable, channel release, program unload, unregister.                   *)
(***************************************************************************)
C10_Steps(i, c) ==
    << <<"deinit", i>>, <<"dma_abort", c>>, <<"busy_false", i>>,
       <<"irq_disable", c>>, <<"unclaim", c>>, <<"sm_enable", i, FALSE>>,
       <<"program_unload", i>>, <<"unregister", i>> >>

C10_Post(s, t, i) ==
    /\ ~t.inst[i].busy
    /\ ~t.dma[s.inst[i].dma_chan].busy
    /\ ~t.dma[s.inst[i].dma_chan].inte0
    /\ s.inst[i].dma_chan \in FreeChans(t)
    /\ dma_claim_unused_channel(t, TRUE).chan = s.inst[i].dma_chan
    /\ ~t.sm[i].enabled
    /\ ~t.sm[i].loaded
    /\ t.inst[i].dma_chan = InvalidChan
    /\ t.log = C10_Steps(i, s.inst[i].dma_chan)

C10_DeinitEndState ==
    [][\A i \in Drv :
          Deinit("A", i) => C10_Post(board["A"], board'["A"], i)]_vars

\* a deinit has cancelled a transfer that was in flight
C10_Witness ==
    \E i \in Drv, c \in Chans :
        /\ board["A"].life[i] = "dead"
        /\ board["A"].log = C10_Steps(i, c)
        /\ board["A"].dma[c].trans_count > 0
        /\ ~board["A"].dma[c].busy
        /\ ~board["A"].dma[c].claimed

(***************************************************************************)
(* C11: no two occupied registry slots, over both tables, refer to         *)
(* instances with the same DMA channel.                                    *)
(***************************************************************************)
\* the occupied slots: <<table, index>> with the pointer stored there
Occupied(s) ==
    {<<"tx", k>> : k \in {j \in Slots : s.tx_instances[j] # NULL}}
    \cup {<<"rx", k>> : k \in {j \in Slots : s.rx_instances[j] # NULL}}

SlotPtr(s, e) == IF e[1] = "tx" THEN s.tx_instances[e[2]] ELSE s.rx_instances[e[2]]

SlotChan(s, e) == Deref(s, SlotPtr(s, e)).dma_chan

C11_OneSlotPerChannel ==
    \A e1, e2 \in Occupied(board["A"]) :
        e1 # e2 => SlotChan(board["A"], e1) # SlotChan(board["A"], e2)

(***************************************************************************)
(* C12: every registry mutation happens while the interrupt source of the  *)
(* instance's channel is disabled: init() registers before it enables the  *)
(* source, deinit() unregisters after it has disabled it.                  *)
(***************************************************************************)
\* the position of the first step named tag in a log, 0 when there is none
IndexOf(log, tag) ==
    IF \E k \in 1 .. Len(log) : log[k][1] = tag
    THEN Min({k \in 1 .. Len(log) : log[k][1] = tag})
    ELSE 0

C12_Before(log, first, second) ==
    0 < IndexOf(log, first) /\ IndexOf(log, first) < IndexOf(log, second)

C12_MutationWhileSourceDisabled ==
    [][\A i \in Drv :
          /\ ((TxInit("A", i) \/ RxInit("A", i)) /\ ~board'["A"].panicked) =>
                 C12_Before(board'["A"].log, "register", "irq_enable")
          /\ Deinit("A", i) =>
                 C12_Before(board'["A"].log, "irq_disable", "unregister")]_vars

(***************************************************************************)
(* C13: whenever pio_spi_dma_tx_wait returns, the DMA channel is not in    *)
(* flight, the TX FIFO of the state machine is empty and the busy flag is  *)
(* false.                                                                  *)
(***************************************************************************)
C13_WaitPost(t, i) ==
    /\ ~dma_channel_is_busy(t, t.inst[i].dma_chan)
    /\ pio_sm_is_tx_fifo_empty(t, i)
    /\ ~t.inst[i].busy
    /\ ~pio_spi_dma_tx_busy(t, i)

C13_TxWaitBothPhases ==
    [][TxWaitFifo("A") => C13_WaitPost(board'["A"], board["A"].pc.id)]_vars

\* a wait has returned after a transfer of MaxLen bytes that all left the FIFO
C13_Witness ==
    \E i \in Drv \cap TxIds :
        /\ board["A"].phase[i] = "waited"
        /\ board["A"].pc.at = "idle"
        /\ Len(board["A"].mem[i]) = MaxLen
        /\ Len(board["A"].wire[i]) >= MaxLen
        /\ C13_WaitPost(board["A"], i)

(***************************************************************************)
(* C14: for a TX instance busy() is true from start(buffer, N > 0) until   *)
(* the state machine has taken the last byte of the transfer: it is never  *)
(* false while the transfer is not yet waited for or aborted and bytes are *)
(* still in the TX FIFO.                                                   *)
(***************************************************************************)
C14_BusyUntilFifoDrained ==
    \A i \in Drv \cap TxIds :
        (/\ Live(board["A"], i)
         /\ Pending(board["A"], i)
         /\ ~pio_sm_is_tx_fifo_empty(board["A"], i)) =>
            pio_spi_dma_tx_busy(board["A"], i)

(***************************************************************************)
(* C15: flush() on an RX instance with no transfer in flight returns with  *)
(* the RX FIFO empty, and a receive started after it yields a buffer that  *)
(* contains only bytes that arrived after the flush call.                  *)
(***************************************************************************)
C15_OnlyFresh(t, i) == \A k \in 1 .. Len(t.mem[i]) : t.mem[i][k] = 1

C15_FlushThenStartFresh ==
    [][/\ \A i \in Drv :
              FlushFresh("A", i) => pio_sm_is_rx_fifo_empty(board'["A"], i)
       /\ (/\ RxWaitDma("A")
           /\ Alphabet = {1}
           /\ Pending(board["A"], board["A"].pc.id)) =>
              C15_OnlyFresh(board'["A"], board["A"].pc.id)]_vars

\* bytes were waiting in the FIFO at the flush, and a receive of MaxLen bytes
\* started after it has been waited for
C15_Witness ==
    \E i \in Drv :
        /\ Alphabet = {1}
        /\ Len(board["A"].pre[i]) = FifoDepth
        /\ board["A"].phase[i] = "waited"
        /\ board["A"].pc.at = "idle"
        /\ Len(board["A"].mem[i]) = MaxLen
        /\ C15_OnlyFresh(board["A"], i)

(***************************************************************************)
(* C16: immediately after a successful TX or RX init(), busy() on the      *)
(* returned instance is false: the busy flag is false and the claimed      *)
(* channel is configured and not started.                                  *)
(***************************************************************************)
C16_Post(t, i) ==
    /\ ~t.inst[i].busy
    /\ t.inst[i].dma_chan \in Chans
    /\ t.dma[t.inst[i].dma_chan].claimed
    /\ ~t.dma[t.inst[i].dma_chan].busy
    /\ t.dma[t.inst[i].dma_chan].trans_count = 0
    /\ IF i \in TxIds THEN ~pio_spi_dma_tx_busy(t, i) ELSE ~pio_spi_dma_rx_busy(t, i)

C16_NotBusyAfterInit ==
    [][\A i \in Drv :
          ((TxInit("A", i) \/ RxInit("A", i)) /\ ~board'["A"].panicked) =>
              C16_Post(board'["A"], i)]_vars

\* an init has just returned an instance on a channel that an earlier
\* instance used and left with its completion flag raised
C16_Witness ==
    \E i \in Drv :
        /\ Live(board["A"], i)
        /\ Len(board["A"].log) > 0
        /\ board["A"].log[1] \in {<<"tx_init", i>>, <<"rx_init", i>>}
        /\ board["A"].dma[board["A"].inst[i].dma_chan].intr
        /\ C16_Post(board["A"], i)

(***************************************************************************)
(* C17: start(buffer, 0) on an idle TX or RX instance changes nothing: the *)
(* busy flag stays false, the channel's address and count are not written, *)
(* the channel is not started, no completion flag is raised, no callback   *)
(* is invoked; blocking(buffer, 0) returns with the instance unchanged.    *)
(***************************************************************************)
\* the driver's globals, the instance structs, the DMA channels, the state
\* machines and the buffers
ProgState(s) ==
    <<s.inst, s.local, s.dma, s.sm, s.mem, s.tx_instances, s.rx_instances,
      s.irq_installed, s.irq_line_enabled, s.panicked>>

C17_Untouched(i) ==
    /\ ProgState(board'["A"]) = ProgState(board["A"])
    /\ board'["A"].log = << <<"start", i>> >>

C17_ZeroLengthStartIsNoOp ==
    [][\A i \in Drv :
          /\ (TxStart("A", i, <<>>) \/ RxStart("A", i, 0)) =>
                 C17_Untouched(i) /\ board'["A"].pc = board["A"].pc
          /\ (TxBlocking("A", i, <<>>) \/ RxBlocking("A", i, 0)) =>
                 C17_Untouched(i)
          /\ ((TxWaitFifo("A") \/ RxWaitDma("A"))
                 /\ board["A"].pc.id = i /\ ~board["A"].inst[i].busy) =>
                 ProgState(board'["A"]) = ProgState(board["A"])]_vars

\* a blocking transfer of length 0 has returned on an instance that is idle
C17_Witness ==
    \E i \in Drv :
        /\ Live(board["A"], i)
        /\ board["A"].log = << <<"start", i>> >>
        /\ board["A"].pc.at = "idle"
        /\ board["A"].phase[i] = "waited"
        /\ ~board["A"].inst[i].busy
        /\ ~dma_channel_is_busy(board["A"], board["A"].inst[i].dma_chan)

(***************************************************************************)
(* C18: for every system clock and every requested bit rate > 0 the        *)
(* divider main() computes is >= 1 and the actual bit rate it computes     *)
(* from it is <= the requested rate.                                       *)
(***************************************************************************)
C18_DividerAndRate ==
    board.at = "done" =>
        /\ ~FLessThanOne(board.tx_divider)
        /\ ~FGreaterThanInt(board.actual_bit_rate, board.SPI_FREQ_HZ)

(***************************************************************************)
(* C19: the shared handler is installed and the shared line enabled        *)
(* exactly once, by the first init: an init installs the handler exactly   *)
(* when it was not installed, leaves handler and line in place, and no     *)
(* step, deinit included, removes the handler or disables the line.        *)
(***************************************************************************)
C19_Installs(log) == \E k \in 1 .. Len(log) : log[k] = <<"irq_install">>

C19_InstalledOnce ==
    [][/\ \A i \in Drv :
            ((TxInit("A", i) \/ RxInit("A", i)) /\ ~board'["A"].panicked) =>
                /\ board'["A"].irq_installed /\ board'["A"].irq_line_enabled
                /\ C19_Installs(board'["A"].log) <=> ~board["A"].irq_installed
       /\ board["A"].irq_installed =>
            /\ board'["A"].irq_installed
            /\ board'["A"].irq_line_enabled
            /\ \A i \in Drv : Deinit("A", i) => ~C19_Installs(board'["A"].log)]_vars

\* an instance has been created again after every instance was destroyed,
\* and this init did not install the handler
C19_Witness ==
    /\ board["A"].log # <<>>
    /\ board["A"].log[1][1] \in {"tx_init", "rx_init"}
    /\ ~C19_Installs(board["A"].log)
    /\ board["A"].irq_installed /\ board["A"].irq_line_enabled
    /\ \A i \in Drv : Live(board["A"], i)

(***************************************************************************)
(* C20: a pass of the interrupt handler writes, for each channel that      *)
(* reports completion, only the busy flag of the instance that owns the    *)
(* channel and calls only that instance's callback; every other field of   *)
(* every instance and both registry tables are left as they were.          *)
(***************************************************************************)
C20_Stores(log) ==
    {log[k][2] : k \in {n \in 1 .. Len(log) : log[n][1] = "busy_clear"}}

C20_Calls(log) ==
    {<<log[k][2], log[k][3]>> : k \in {n \in 1 .. Len(log) : log[n][1] = "call"}}

C20_Frame(s, t, own) ==
    /\ t.tx_instances = s.tx_instances
    /\ t.rx_instances = s.rx_instances
    /\ \A i \in Ids :
          /\ [t.inst[i] EXCEPT !.busy = s.inst[i].busy] = s.inst[i]
          /\ t.inst[i].busy # s.inst[i].busy => i \in own
    /\ C20_Stores(t.log) \subseteq {OwnerPtr(i) : i \in own}
    /\ C20_Calls(t.log) \subseteq
          {<<s.inst[i].callback, s.inst[i].callback_data>> : i \in own}

C20_DispatchFrame ==
    [][Irq("A") =>
          C20_Frame(board["A"], board'["A"],
                    Owners(board["A"], Acked(board["A"], board'["A"])))]_vars

(***************************************************************************)
(* C21: the unregister made by deinit() clears exactly the slot that holds *)
(* the address of the instance and no other slot of either table; when no  *)
(* slot holds it both tables stay as they were, and a second unregister of *)
(* the same instance changes nothing.                                      *)
(***************************************************************************)
C21_Cleared(tbl, p) == [k \in Slots |-> IF tbl[k] = p THEN NULL ELSE tbl[k]]

C21_Tables(s) == <<s.tx_instances, s.rx_instances>>

C21_Again(t, i) ==
    IF i \in TxIds THEN unregister_tx_instance(t, OwnerPtr(i))
    ELSE unregister_rx_instance(t, OwnerPtr(i))

C21_Post(s, t, i) ==
    /\ C21_Tables(t) =
          IF i \in TxIds
          THEN <<C21_Cleared(s.tx_instances, OwnerPtr(i)), s.rx_instances>>
          ELSE <<s.tx_instances, C21_Cleared(s.rx_instances, OwnerPtr(i))>>
    /\ Cardinality(Occupied(s)) - Cardinality(Occupied(t)) \in {0, 1}
    /\ C21_Tables(C21_Again(t, i)) = C21_Tables(t)

C21_UnregisterExact ==
    [][\A i \in Drv :
          Deinit("A", i) => C21_Post(board["A"], board'["A"], i)]_vars

\* an instance has been unregistered from a slot below one still occupied
C21_Witness ==
    /\ \E i \in Drv \cap TxIds : board["A"].life[i] = "dead"
    /\ board["A"].tx_instances[0] = NULL
    /\ board["A"].tx_instances[1] # NULL
    /\ \E k \in Slots : board["A"].rx_instances[k] # NULL

(***************************************************************************)
(* C22: pio_spi_dma_tx_blocking(buffer, N), N >= 0, is start followed by   *)
(* wait and eventually returns with busy() false, whether or not the       *)
(* completion interrupt is ever taken.                                     *)
(***************************************************************************)
C22_InBlocking == board["A"].pc.at \in {"tx_wait_dma", "tx_wait_fifo"}

C22_Returned ==
    /\ board["A"].pc = IdlePc
    /\ ~pio_spi_dma_tx_busy(board["A"], PingTx)

C22_BlockingReturns == C22_InBlocking ~> C22_Returned

\* a blocking transfer of MaxLen bytes has returned, every byte is on the
\* wire, and its completion interrupt has not been taken
C22_Witness ==
    /\ C22_Returned
    /\ board["A"].phase[PingTx] = "waited"
    /\ Len(board["A"].wire[PingTx]) = MaxLen
    /\ dma_channel_get_irq0_status(board["A"], board["A"].inst[PingTx].dma_chan)

(***************************************************************************)
(* C23: the payload of the k-th ping (k = 0, 1, 2, ...) is k mod 256, and  *)
(* a ping is counted as a reply exactly when a response came and its byte  *)
(* equals the byte sent, for the pings before, at and after the wrap of    *)
(* the sequence number.                                                    *)
(***************************************************************************)
C23_PayloadIsIndex ==
    /\ board.at = "send" => board.tx_byte = board.pings_sent % 256
    /\ (board.at \in {"poll", "top"} /\ board.pings_sent > 0) =>
          board.tx_byte = (board.pings_sent - 1) % 256
    /\ board.sequence = (board.pings_sent + (IF board.at = "send" THEN 1 ELSE 0)) % 256
    /\ board.result = "reply" => board.rx_byte = board.tx_byte
    /\ board.result = "error" => board.rx_byte # board.tx_byte

\* the last of MaxSeqPings pings has been answered, after the wrap
C23_Witness ==
    /\ board.at = "top"
    /\ board.pings_sent = MaxSeqPings
    /\ board.pings_sent > 256
    /\ board.tx_byte = (MaxSeqPings - 1) % 256
    /\ board.result = "reply"

(***************************************************************************)
(* C24 as stated: start(buffer2, M), M > 0, while a transfer of the        *)
(* instance is in flight re-arms the channel with the new address and the  *)
(* new count and leaves the instance busy.                                 *)
(***************************************************************************)
C24_Armed(s, t, i, counts) ==
    LET c == s.inst[i].dma_chan
    IN  /\ t.inst[i].busy
        /\ t.dma[c].busy
        /\ t.dma[c].mem = i /\ t.dma[c].idx = 1
        /\ t.dma[c].trans_count \in counts
        /\ [t.dma EXCEPT ![c] = s.dma[c]] = s.dma

C24_NoOldBytes(t, i) ==
    \A k \in (Len(t.pre[i]) + 1) .. Len(t.wire[i]) : t.wire[i][k] # 0

C25_EveryCompletionAcknowledged ==
    IrqPending(board["A"]) => ~IrqPending(IrqPass(board["A"]))

(***************************************************************************)
(* C26: once abort() has returned the aborted transfer has no further      *)
(* effect on the instance: as long as no new transfer is started no pass   *)
(* of the interrupt handler invokes the callback of the instance, and a    *)
(* pass taken while the channel is moving a transfer started after the     *)
(* abort does not clear the busy flag of the instance.                     *)
(***************************************************************************)
C26_Aborted(s, i) == Live(s, i) /\ s.phase[i] = "aborted"

C26_Calls(log) == \E k \in 1 .. Len(log) : log[k][1] = "call"

C26_Moving(s, i) ==
    /\ Live(s, i) /\ s.phase[i] = "started"
    /\ dma_channel_is_busy(s, s.inst[i].dma_chan)

C26_AbortedTransferIsSilent ==
    [][Irq("A") =>
          \A i \in Drv :
              /\ C26_Aborted(board["A"], i) => ~C26_Calls(board'["A"].log)
              /\ C26_Moving(board["A"], i) =>
                    board'["A"].inst[i].busy = board["A"].inst[i].busy]_vars

====
